---- MODULE Spec2Model ----
(***************************************************************************)
(* Model of the reminder bot of mami0tsu/homeops: the event parsing,       *)
(* bounds filtering and recurrence matching of its three source variants   *)
(*   - the spreadsheet pipeline   (src/remind/sheet.go),                   *)
(*   - the typed-interval variant (src/unnamed/part_001, first file),      *)
(*   - the Notion pipeline        (src/unnamed/part_000, part_005).        *)
(* and of the Lambda handlers that drive them (src/unnamed/part_004,       *)
(* src/remind/main.go, src/remind/discord.go) and of the slash-command     *)
(* endpoint (src/hello/main.go).                                           *)
(*                                                                         *)
(* A time.Time is a record [abs, off]: abs is the instant in hours since   *)
(* 1970-01-01T00:00Z, off the zone offset in hours.  Before/After/Equal    *)
(* compare instants, Year/Month/Day/Weekday read the civil date in the     *)
(* value's own zone, as Go's time package does.  A Go string is a          *)
(* sequence of one-character strings, so that formatting, parsing and      *)
(* lower-casing are computed character by character.                       *)
(***************************************************************************)
EXTENDS Integers, Sequences, FiniteSets, TLC

VARIABLES
    op,      \* the operation that has just run ("idle" before any call)
    rows,    \* its row/page input: sheet rows (header included) or Notion pages;
             \* the parsed Request in the slash-command handler
    events,  \* its event input (filter, isContain, isMatch, validateEvent, round trip)
    t,       \* its target time
    now,     \* the wall clock read by the call (time.Now())
    out,     \* the events it returned; the schedules or the response of a handler
    ret,     \* its boolean / scalar result
    err,     \* TRUE iff it returned a non-nil error
    raised,  \* the error value Fetch, Do or a handler returned (NoError for nil)
    calls,   \* the calls it made to its collaborators, in order
    pc,      \* the position of a handler that runs step by step
    req,     \* the request a handler was invoked with
    cfg      \* the configuration a handler loaded

vars == <<op, rows, events, t, now, out, ret, err, raised, calls, pc, req, cfg>>

----------------------------------------------------------------------------
(* Go's time package, as far as the program uses it *)

JSTOffset == 9

\* days since 1970-01-01 of the proleptic Gregorian date y-m-d (time.Date)
DaysFromCivil(y, m, d) ==
    LET yy  == IF m <= 2 THEN y - 1 ELSE y
        era == yy \div 400
        yoe == yy - era * 400
        mp  == IF m > 2 THEN m - 3 ELSE m + 9
        doy == (153 * mp + 2) \div 5 + d - 1
        doe == yoe * 365 + yoe \div 4 - yoe \div 100 + doy
    IN  era * 146097 + doe - 719468

\* <<year, month, day>> of the day z days after 1970-01-01 (Time.Date)
CivilFromDays(z) ==
    LET zz  == z + 719468
        era == zz \div 146097
        doe == zz - era * 146097
        yoe == (doe - doe \div 1460 + doe \div 36524 - doe \div 146096) \div 365
        doy == doe - (365 * yoe + yoe \div 4 - yoe \div 100)
        mp  == (5 * doy + 2) \div 153
        d   == doy - (153 * mp + 2) \div 5 + 1
        m   == IF mp < 10 THEN mp + 3 ELSE mp - 9
        y   == yoe + era * 400 + (IF m <= 2 THEN 1 ELSE 0)
    IN  <<y, m, d>>

IsLeap(y) == (y % 4 = 0) /\ ((y % 100 # 0) \/ (y % 400 = 0))

DaysIn(m, y) ==
    IF m = 2 THEN (IF IsLeap(y) THEN 29 ELSE 28)
    ELSE IF m \in {4, 6, 9, 11} THEN 30 ELSE 31

\* time.Date(y, m, d, h, 0, 0, 0, zone with offset off)
Date(y, m, d, h, off) == [abs |-> DaysFromCivil(y, m, d) * 24 + h - off, off |-> off]

\* the zero time.Time: 0001-01-01T00:00Z
ZeroTime == Date(1, 1, 1, 0, 0)

IsZero(x) == x.abs = ZeroTime.abs

Before(a, b) == a.abs < b.abs
After(a, b) == a.abs > b.abs
Equal(a, b) == a.abs = b.abs

LocalDays(x) == (x.abs + x.off) \div 24
Year(x) == CivilFromDays(LocalDays(x))[1]
Month(x) == CivilFromDays(LocalDays(x))[2]
Day(x) == CivilFromDays(LocalDays(x))[3]
\* 0 = Sunday ... 6 = Saturday; 1970-01-01 was a Thursday
Weekday(x) == (LocalDays(x) + 4) % 7

\* x.In(zone with offset off): the same instant, read in another zone
In(x, off) == [abs |-> x.abs, off |-> off]

----------------------------------------------------------------------------
(* Go strings *)

Digits == <<"0", "1", "2", "3", "4", "5", "6", "7", "8", "9">>

IsDigit(c) == \E i \in 1..10 : Digits[i] = c
DigitVal(c) == (CHOOSE i \in 1..10 : Digits[i] = c) - 1

Upper == <<"A", "B", "C", "D", "E", "F", "G", "H", "I", "J", "K", "L", "M",
           "N", "O", "P", "Q", "R", "S", "T", "U", "V", "W", "X", "Y", "Z">>
Lower == <<"a", "b", "c", "d", "e", "f", "g", "h", "i", "j", "k", "l", "m",
           "n", "o", "p", "q", "r", "s", "t", "u", "v", "w", "x", "y", "z">>

LowerChar(c) ==
    IF \E i \in 1..26 : Upper[i] = c
    THEN Lower[CHOOSE i \in 1..26 : Upper[i] = c]
    ELSE c

\* strings.ToLower
ToLower(s) == [i \in 1..Len(s) |-> LowerChar(s[i])]

\* the value of a run of decimal digits
RECURSIVE Atoi(_)
Atoi(s) == IF s = <<>> THEN 0 ELSE Atoi(SubSeq(s, 1, Len(s) - 1)) * 10 + DigitVal(s[Len(s)])

AllDigits(s) == \A i \in 1..Len(s) : IsDigit(s[i])

\* n as exactly w decimal digits, zero padded
RECURSIVE Pad(_, _)
Pad(n, w) == IF w = 0 THEN <<>> ELSE Append(Pad(n \div 10, w - 1), Digits[(n % 10) + 1])

\* x.Format("2006" sep "01" sep "02")
\* mutant: the day is written first
Format_dayFirst(x, sep) == Pad(Day(x), 2) \o <<sep>> \o Pad(Month(x), 2) \o <<sep>> \o Pad(Year(x), 4)

Format(x, sep) == Pad(Year(x), 4) \o <<sep>> \o Pad(Month(x), 2) \o <<sep>> \o Pad(Day(x), 2)

\* time.ParseInLocation("2006" sep "01" sep "02", s, zone with offset off):
\* [ok, time].  A four-digit year, a two-digit month and a two-digit day,
\* separated by sep, nothing before or after, the month in 1..12 and the
\* day within the month.
ParseInLocation(sep, s, off) ==
    LET bad == [ok |-> FALSE, time |-> ZeroTime]
    IN  IF Len(s) < 4 \/ ~AllDigits(SubSeq(s, 1, 4)) THEN bad
        ELSE IF Len(s) < 5 \/ s[5] # sep THEN bad
        ELSE IF Len(s) < 7 \/ ~AllDigits(SubSeq(s, 6, 7)) THEN bad
        ELSE IF Len(s) < 8 \/ s[8] # sep THEN bad
        ELSE IF Len(s) < 10 \/ ~AllDigits(SubSeq(s, 9, 10)) THEN bad
        ELSE IF Len(s) > 10 THEN bad
        ELSE LET y == Atoi(SubSeq(s, 1, 4))
                 m == Atoi(SubSeq(s, 6, 7))
                 d == Atoi(SubSeq(s, 9, 10))
             IN  IF m < 1 \/ m > 12 THEN bad
                 ELSE IF d < 1 \/ d > DaysIn(m, y) THEN bad
                 ELSE [ok |-> TRUE, time |-> Date(y, m, d, 0, off)]

\* a nil interface{} cell (no string has an element of several characters);
\* every other cell is a string
NilCell == <<"nil">>

\* fmt.Sprintf("%v", c)
Sprintf(c) == IF c = NilCell THEN <<"<", "n", "i", "l", ">">> ELSE c

----------------------------------------------------------------------------
(* The spreadsheet pipeline: src/remind/sheet.go *)

nameIdx == 0
intervalIdx == 1
startDateIdx == 2
endDateIdx == 3

\* r[index] of a Go slice
Cell(r, index) == r[index + 1]

\* midnight, in JST, of the wall clock's day
Today(clock) ==
    LET n == In(clock, JSTOffset)
    IN  Date(Year(n), Month(n), Day(n), 0, JSTOffset)

slash == "/"
dash == "-"

\* mutant: text that does not parse is taken as no date
parseDate_lenient(r, index, clock) ==
    IF Len(r) <= index \/ Sprintf(Cell(r, index)) = <<>>
    THEN [ok |-> TRUE, time |-> Today(clock)]
    ELSE LET p == ParseInLocation(slash, Sprintf(Cell(r, index)), JSTOffset)
         IN  IF p.ok THEN p ELSE [ok |-> TRUE, time |-> Today(clock)]

parseDate(r, index, clock) ==
    IF Len(r) <= index \/ Sprintf(Cell(r, index)) = <<>>
    THEN [ok |-> TRUE, time |-> Today(clock)]
    ELSE ParseInLocation(slash, Sprintf(Cell(r, index)), JSTOffset)

\* mutant: the empty string is taken as a value
parseValue_noEmptyCheck(r, index) ==
    IF Len(r) <= index
    THEN [ok |-> FALSE, value |-> <<>>]
    ELSE [ok |-> TRUE, value |-> Sprintf(Cell(r, index))]

parseValue(r, index) ==
    IF Len(r) <= index \/ Sprintf(Cell(r, index)) = <<>>
    THEN [ok |-> FALSE, value |-> <<>>]
    ELSE [ok |-> TRUE, value |-> Sprintf(Cell(r, index))]

NoEvent == [Name |-> <<>>, Interval |-> <<>>, Start |-> ZeroTime, End |-> ZeroTime]

parseRow(r, clock) ==
    LET name      == parseValue(r, nameIdx)
        interval  == parseValue(r, intervalIdx)
        startDate == parseDate(r, startDateIdx, clock)
        endDate   == parseDate(r, endDateIdx, clock)
    IN  IF ~name.ok THEN [ok |-> FALSE, event |-> NoEvent]
        ELSE IF ~interval.ok THEN [ok |-> FALSE, event |-> NoEvent]
        ELSE IF ~startDate.ok THEN [ok |-> FALSE, event |-> NoEvent]
        ELSE IF ~endDate.ok THEN [ok |-> FALSE, event |-> NoEvent]
        ELSE [ok |-> TRUE,
              event |-> [Name |-> name.value, Interval |-> interval.value,
                         Start |-> startDate.time, End |-> endDate.time]]

sOneshot == <<"o", "n", "e", "s", "h", "o", "t">>
sOnetime == <<"o", "n", "e", "t", "i", "m", "e">>
sWeekly == <<"w", "e", "e", "k", "l", "y">>
sMonthly == <<"m", "o", "n", "t", "h", "l", "y">>
sYearly == <<"y", "e", "a", "r", "l", "y">>

\* mutant: yearly compares the day of the month only
isMatch_yearlyDayOnly(event, x) ==
    LET i == ToLower(event.Interval)
    IN  IF i = sOneshot THEN Equal(x, event.Start)
        ELSE IF i = sWeekly THEN Weekday(x) = Weekday(event.Start)
        ELSE IF i = sMonthly THEN Day(x) = Day(event.Start)
        ELSE IF i = sYearly THEN Day(x) = Day(event.Start)
        ELSE FALSE

\* mutant: an unknown interval matches every date
isMatch_defaultTrue(event, x) ==
    LET i == ToLower(event.Interval)
    IN  IF i = sOneshot THEN Equal(x, event.Start)
        ELSE IF i = sWeekly THEN Weekday(x) = Weekday(event.Start)
        ELSE IF i = sMonthly THEN Day(x) = Day(event.Start)
        ELSE IF i = sYearly THEN Month(x) = Month(event.Start) /\ Day(x) = Day(event.Start)
        ELSE TRUE

\* mutant: monthly and yearly fall back to the last day of a shorter month
isMatch_clampToMonthEnd(event, x) ==
    LET i == ToLower(event.Interval)
        last == DaysIn(Month(x), Year(x))
        day == IF Day(event.Start) > last THEN last ELSE Day(event.Start)
    IN  IF i = sOneshot THEN Equal(x, event.Start)
        ELSE IF i = sWeekly THEN Weekday(x) = Weekday(event.Start)
        ELSE IF i = sMonthly THEN Day(x) = day
        ELSE IF i = sYearly THEN Month(x) = Month(event.Start) /\ Day(x) = day
        ELSE FALSE

isMatch(event, x) ==
    LET i == ToLower(event.Interval)
    IN  IF i = sOneshot THEN Equal(x, event.Start)
        ELSE IF i = sWeekly THEN Weekday(x) = Weekday(event.Start)
        ELSE IF i = sMonthly THEN Day(x) = Day(event.Start)
        ELSE IF i = sYearly THEN Month(x) = Month(event.Start) /\ Day(x) = Day(event.Start)
        ELSE FALSE

\* mutant: the end bound made exclusive
filterExcludes_endExclusive(e, x) == Before(x, e.Start) \/ ~Before(x, e.End)

\* the bounds test of filter: t < e.Start or e.End < t excludes the event
filterExcludes(e, x) == Before(x, e.Start) \/ After(x, e.End)

\* mutant: the recurrence test is left out
filter_boundsOnly(es, x) == SelectSeq(es, LAMBDA e : ~filterExcludes(e, x))

filter(es, x) == SelectSeq(es, LAMBDA e : ~filterExcludes(e, x) /\ isMatch(e, x))

\* mutant: the row loop stops at the first row that fails to parse
RECURSIVE parseRows_stopAtError(_, _)
parseRows_stopAtError(rs, clock) ==
    IF rs = <<>> THEN <<>>
    ELSE LET p == parseRow(Head(rs), clock)
         IN  IF p.ok THEN <<p.event>> \o parseRows_stopAtError(Tail(rs), clock) ELSE <<>>

\* the row eventsToValueRange writes for an event
eventToRow(e) == <<e.Name, e.Interval, Format(e.Start, slash), Format(e.End, slash)>>

\* the rows that parse, in row order
RECURSIVE parseRows(_, _)
parseRows(rs, clock) ==
    IF rs = <<>> THEN <<>>
    ELSE LET p == parseRow(Head(rs), clock)
         IN  (IF p.ok THEN <<p.event>> ELSE <<>>) \o parseRows(Tail(rs), clock)

\* a Go error value: NoError is nil, ReaderErrors are what the reader may fail with
NoError == "nil"
ReaderErrors == {"API error", "quota exceeded"}

\* mutant: the reader's error is replaced by an error of Fetch's own
Fetch_ownError(values, readErr, x, clock) ==
    IF readErr # NoError THEN [events |-> <<>>, err |-> "fetch failed"]
    ELSE IF Len(values) < 2 THEN [events |-> <<>>, err |-> NoError]
    ELSE [events |-> filter(parseRows(Tail(values), clock), x), err |-> NoError]

\* mutant: a sheet without data rows is an error
Fetch_noDataError(values, readErr, x, clock) ==
    IF readErr # NoError THEN [events |-> <<>>, err |-> readErr]
    ELSE IF Len(values) < 2 THEN [events |-> <<>>, err |-> "no data rows"]
    ELSE [events |-> filter(parseRows(Tail(values), clock), x), err |-> NoError]

\* values, readErr: what SheetDataReader.GetValues returned
Fetch(values, readErr, x, clock) ==
    IF readErr # NoError THEN [events |-> <<>>, err |-> readErr]
    ELSE IF Len(values) < 2 THEN [events |-> <<>>, err |-> NoError]
    ELSE [events |-> filter(parseRows(Tail(values), clock), x), err |-> NoError]

\* the calls one run of Fetch makes, each with the error it returned: the
\* reader once, then, for a sheet with data rows, parseRow once per data row
\* and filter once
FetchCalls(values, readErr, clock) ==
    <<[fn |-> "GetValues", err |-> readErr]>> \o
    (IF readErr # NoError \/ Len(values) < 2 THEN <<>>
     ELSE [i \in 1..(Len(values) - 1) |->
              [fn |-> "parseRow",
               err |-> IF parseRow(values[i + 1], clock).ok THEN NoError ELSE "parse error"]]
          \o <<[fn |-> "filter", err |-> NoError]>>)

\* Client.Do on a source whose Fetch returned f
Client_Do(f) ==
    IF f.err # NoError THEN [events |-> <<>>, err |-> f.err]
    ELSE [events |-> f.events, err |-> NoError]

----------------------------------------------------------------------------
(* The typed-interval variant: src/unnamed/part_001, lines 1-82 *)

onetime == 0
weekly == 1
monthly == 2
yearly == 3

sUnknown == <<"U", "n", "k", "n", "o", "w", "n">>

\* Interval.String()
Interval_String(i) ==
    IF i = onetime THEN <<"O", "n", "e", "t", "i", "m", "e">>
    ELSE IF i = weekly THEN <<"W", "e", "e", "k", "l", "y">>
    ELSE IF i = monthly THEN <<"M", "o", "n", "t", "h", "l", "y">>
    ELSE IF i = yearly THEN <<"Y", "e", "a", "r", "l", "y">>
    ELSE sUnknown

parseInterval(s) ==
    LET l == ToLower(s)
    IN  IF l = sOnetime THEN [ok |-> TRUE, interval |-> onetime]
        ELSE IF l = sWeekly THEN [ok |-> TRUE, interval |-> weekly]
        ELSE IF l = sMonthly THEN [ok |-> TRUE, interval |-> monthly]
        ELSE IF l = sYearly THEN [ok |-> TRUE, interval |-> yearly]
        ELSE [ok |-> FALSE, interval |-> -1]

Event_isContain(e, x) == ~(Before(x, e.StartDate) \/ After(x, e.EndDate))

Event_isMatch(e, x) ==
    IF e.Interval = onetime
    THEN Year(x) = Year(e.StartDate) /\ Month(x) = Month(e.StartDate) /\ Day(x) = Day(e.StartDate)
    ELSE IF e.Interval = weekly THEN Weekday(x) = Weekday(e.StartDate)
    ELSE IF e.Interval = monthly THEN Day(x) = Day(e.StartDate)
    ELSE IF e.Interval = yearly
    THEN Month(x) = Month(e.StartDate) /\ Day(x) = Day(e.StartDate)
    ELSE FALSE

----------------------------------------------------------------------------
(* The Notion pipeline: src/unnamed/part_000, src/unnamed/part_005 lines 454-557 *)

\* a page property that is absent (or has no value)
Absent == [has |-> FALSE, val |-> <<>>]
Prop(v) == [has |-> TRUE, val |-> v]

getEvent(page) ==
    LET name     == IF page.Name.has THEN page.Name.val ELSE <<>>
        interval == IF page.Interval.has THEN page.Interval.val ELSE <<>>
        start    == ParseInLocation(dash, page.Start.val, 0)
        end      == ParseInLocation(dash, page.End.val, 0)
    IN  IF page.Start.has /\ ~start.ok THEN [ok |-> FALSE, event |-> NoEvent]
        ELSE [ok |-> TRUE,
              event |-> [Name |-> name, Interval |-> interval,
                         Start |-> IF page.Start.has THEN start.time ELSE ZeroTime,
                         End |-> IF page.End.has /\ end.ok THEN end.time ELSE ZeroTime]]

sameDate(a, b) == Year(a) = Year(b) /\ Month(a) = Month(b) /\ Day(a) = Day(b)

validateEvent(event, x) ==
    IF ~IsZero(event.End) /\ (Before(x, event.Start) \/ ~Before(x, event.End)) THEN FALSE
    ELSE LET i == ToLower(event.Interval)
         IN  IF i = sOneshot THEN sameDate(x, event.Start)
             ELSE IF i = sWeekly THEN Weekday(x) = Weekday(event.Start)
             ELSE IF i = sMonthly THEN Day(x) = Day(event.Start)
             ELSE IF i = sYearly
             THEN Month(x) = Month(event.Start) /\ Day(x) = Day(event.Start)
             ELSE FALSE

RECURSIVE getEvents(_, _)
getEvents(pages, x) ==
    IF pages = <<>> THEN <<>>
    ELSE LET g == getEvent(Head(pages))
         IN  (IF g.ok /\ validateEvent(g.event, x) THEN <<g.event>> ELSE <<>>)
             \o getEvents(Tail(pages), x)

\* the calendar day a Notion date value starts on (its first ten characters)
NotionDay(v) == LocalDays(ParseInLocation(dash, SubSeq(v, 1, 10), 0).time)

\* the database query fetchEvents sends, as Notion evaluates it on a page:
\* Start on_or_before date, and End is_empty or End after date
queryFilter(page, date) ==
    /\ page.Start.has
    /\ NotionDay(page.Start.val) <= NotionDay(date)
    /\ (~page.End.has \/ NotionDay(page.End.val) > NotionDay(date))

\* db: the pages of the database; httpOK: the query was answered with status 200
fetchEvents(db, httpOK, x) ==
    IF ~httpOK THEN [events |-> <<>>, err |-> TRUE]
    ELSE [events |-> getEvents(SelectSeq(db, LAMBDA pg : queryFilter(pg, Format(x, dash))), x),
          err |-> FALSE]

----------------------------------------------------------------------------
(* Inputs *)

\* the consecutive days 2024-12-31 + 0..WindowDays are target dates
WindowDays == 15

\* the clock hours a target instant may carry: midnight and 10:00
ClockHours == {0, 10}

\* at most MaxRows data rows (or pages) in one batch
MaxRows == 2

WindowDates == {CivilFromDays(DaysFromCivil(2024, 12, 31) + i) : i \in 0..WindowDays}

AnchorDates ==
    {<<2024, 2, 29>>, <<2025, 1, 21>>, <<2025, 1, 30>>, <<2025, 1, 31>>, <<2025, 2, 28>>,
     <<2025, 3, 1>>, <<2025, 3, 15>>, <<2025, 3, 31>>, <<2025, 4, 30>>, <<2026, 3, 16>>,
     <<2028, 2, 29>>, <<2030, 3, 15>>}

TargetDates == WindowDates \cup AnchorDates

StartDates == {<<2025, 1, 1>>, <<2025, 1, 21>>, <<2025, 1, 31>>, <<2025, 3, 15>>, <<2024, 2, 29>>}

EndDates == {<<2025, 1, 1>>, <<2025, 1, 10>>, <<2025, 1, 15>>, <<2025, 1, 30>>, <<2030, 3, 15>>, <<2024, 12, 31>>}

\* midnight of a civil date in JST / in UTC
JST(c) == Date(c[1], c[2], c[3], 0, JSTOffset)
UTC(c) == Date(c[1], c[2], c[3], 0, 0)

\* target instants: a target date at one of the clock hours, in JST
TargetTimes == {Date(c[1], c[2], c[3], h, JSTOffset) : c \in TargetDates, h \in ClockHours}

\* wall clocks (UTC): 2025-01-08 05:00 JST and 2025-01-15 12:00 JST
Clocks == {Date(2025, 1, 7, 20, 0), Date(2025, 1, 15, 3, 0)}

sDaily == <<"D", "a", "i", "l", "y">>
sWeeklyCap == <<"W", "e", "e", "k", "l", "y">>
sYearlyUp == <<"Y", "E", "A", "R", "L", "Y">>

\* interval labels of string-typed events
Labels == {sOneshot, sOnetime, sWeeklyCap, sMonthly, sYearlyUp, sDaily, <<>>}

sA == <<"A">>
sB == <<"B">>
sBlank == <<" ">>
sBlanks == <<" ", " ">>

SheetEvents ==
    {[Name |-> sA, Interval |-> l, Start |-> JST(s), End |-> JST(e)] :
        l \in Labels, s \in StartDates, e \in EndDates}

d20250101 == <<"2", "0", "2", "5", "/", "0", "1", "/", "0", "1">>
d20250102 == <<"2", "0", "2", "5", "/", "0", "1", "/", "0", "2">>
d20250115 == <<"2", "0", "2", "5", "/", "0", "1", "/", "1", "5">>
d20250130 == <<"2", "0", "2", "5", "/", "0", "1", "/", "3", "0">>
d20250721 == <<"2", "0", "2", "5", "/", "0", "7", "/", "2", "1">>
d20250230 == <<"2", "0", "2", "5", "/", "0", "2", "/", "3", "0">>
d20251301 == <<"2", "0", "2", "5", "/", "1", "3", "/", "0", "1">>
dShort == <<"2", "0", "2", "5", "/", "1", "/", "2">>
dTrail == <<"2", "0", "2", "5", "/", "0", "1", "/", "0", "1", " ">>
dDashed == <<"2", "0", "2", "5", "-", "0", "7", "-", "2", "1">>
dNotADate == <<"n", "o", "t", "-", "a", "-", "d", "a", "t", "e">>

NameCells == {sA, <<>>, sBlank, sBlanks, NilCell}
IntervalCells == {sWeeklyCap, sDaily, sOneshot, <<>>}
DateCells == {d20250101, d20250102, d20250721, d20250230, d20251301, dShort, dTrail,
              dDashed, dNotADate, <<>>, NilCell}

\* every row of zero to four cells over the cell sets
SheetRows ==
    {<<>>}
    \cup {<<n>> : n \in NameCells}
    \cup {<<n, i>> : n \in NameCells, i \in IntervalCells}
    \cup {<<n, i, s>> : n \in NameCells, i \in IntervalCells, s \in DateCells}
    \cup {<<n, i, s, e>> : n \in NameCells, i \in IntervalCells, s \in DateCells, e \in DateCells}

\* events that are not valid: no name, no interval, a start with a time of
\* day, an end in another zone, no dates at all
OddEvents ==
    {[Name |-> <<>>, Interval |-> sWeekly, Start |-> JST(<<2025, 1, 1>>), End |-> JST(<<2025, 1, 30>>)],
     [Name |-> sB, Interval |-> <<>>, Start |-> JST(<<2025, 1, 1>>), End |-> JST(<<2025, 1, 30>>)],
     [Name |-> sB, Interval |-> sWeekly, Start |-> Date(2025, 1, 1, 10, JSTOffset), End |-> JST(<<2025, 1, 30>>)],
     [Name |-> sB, Interval |-> sWeekly, Start |-> JST(<<2025, 1, 1>>), End |-> UTC(<<2025, 1, 30>>)],
     [Name |-> sB, Interval |-> sMonthly, Start |-> ZeroTime, End |-> ZeroTime]}

sName == <<"N", "a", "m", "e">>
sInterval == <<"I", "n", "t", "e", "r", "v", "a", "l">>
sStartDate == <<"S", "t", "a", "r", "t", "D", "a", "t", "e">>
sEndDate == <<"E", "n", "d", "D", "a", "t", "e">>

HeaderRow == <<sName, sInterval, sStartDate, sEndDate>>
ShortHeaderRow == <<sName, sInterval, sStartDate>>

\* the data rows of a fetched sheet
FetchRows ==
    {<<sA, sWeeklyCap, d20250101, d20250130>>,
     <<sB, sWeekly, d20250101>>,
     <<sB, sWeekly, d20250101, <<>> >>,
     <<sA, sDaily, dDashed, dNotADate>>,
     <<sB, sDaily, d20250101, d20250130>>,
     <<sA, sOneshot, d20250115, d20250115>>,
     <<sBlank, sMonthly, d20250115, d20250130>>}

RECURSIVE SeqsUpTo(_, _)
SeqsUpTo(S, n) ==
    IF n = 0 THEN {<<>>}
    ELSE LET shorter == SeqsUpTo(S, n - 1)
         IN  shorter \cup {Append(q, x) : q \in {r \in shorter : Len(r) = n - 1}, x \in S}

\* what GetValues may return as Values
Sheets == {<<>>, <<ShortHeaderRow>>} \cup {<<HeaderRow>> \o b : b \in SeqsUpTo(FetchRows, MaxRows)}

FetchTargets == {JST(<<2024, 12, 31>>), JST(<<2025, 1, 8>>), JST(<<2025, 1, 15>>), JST(<<2025, 1, 30>>)}

\* typed events; 4 and -1 are no declared Interval
TypedEvents ==
    {[Name |-> sA, Interval |-> i, StartDate |-> JST(s), EndDate |-> JST(e)] :
        i \in {-1, onetime, weekly, monthly, yearly, 4}, s \in StartDates, e \in EndDates}

n20250101 == <<"2", "0", "2", "5", "-", "0", "1", "-", "0", "1">>
n20250110 == <<"2", "0", "2", "5", "-", "0", "1", "-", "1", "0">>
n20250115 == <<"2", "0", "2", "5", "-", "0", "1", "-", "1", "5">>
n20250121 == <<"2", "0", "2", "5", "-", "0", "1", "-", "2", "1">>
n20250130 == <<"2", "0", "2", "5", "-", "0", "1", "-", "3", "0">>
n20250131 == <<"2", "0", "2", "5", "-", "0", "1", "-", "3", "1">>
n20250315 == <<"2", "0", "2", "5", "-", "0", "3", "-", "1", "5">>
n20300315 == <<"2", "0", "3", "0", "-", "0", "3", "-", "1", "5">>
n20240229 == <<"2", "0", "2", "4", "-", "0", "2", "-", "2", "9">>
n20241231 == <<"2", "0", "2", "4", "-", "1", "2", "-", "3", "1">>
\* a date that carries a time of day
nDateTime == <<"2", "0", "2", "5", "-", "0", "1", "-", "0", "1", "T", "1", "0", ":", "0", "0">>

NotionStarts == {Absent} \cup {Prop(v) : v \in {n20250101, n20250121, n20250131, n20250315, n20240229, nDateTime}}
NotionEnds == {Absent} \cup {Prop(v) : v \in {n20250110, n20250115, n20300315, n20241231, n20250101, nDateTime}}
NotionIntervals == {Absent} \cup {Prop(v) : v \in {sOneshot, sWeeklyCap, sMonthly, sYearlyUp, sDaily}}

NotionPages ==
    {[Name |-> Prop(sA), Interval |-> i, Start |-> s, End |-> e] :
        i \in NotionIntervals, s \in NotionStarts, e \in NotionEnds}

\* the pages of the batches of several pages
BatchPages ==
    {[Name |-> Prop(sA), Interval |-> Prop(sWeeklyCap), Start |-> Prop(n20250101), End |-> Prop(n20250130)],
     [Name |-> Prop(sB), Interval |-> Prop(sDaily), Start |-> Prop(n20250101), End |-> Absent],
     [Name |-> Prop(sB), Interval |-> Absent, Start |-> Prop(n20250101), End |-> Prop(n20250130)],
     [Name |-> Prop(sA), Interval |-> Prop(sWeekly), Start |-> Prop(nDateTime), End |-> Absent],
     [Name |-> Prop(sB), Interval |-> Prop(sWeekly), Start |-> Prop(n20250101), End |-> Absent]}

PageBatches == {<<pg>> : pg \in NotionPages} \cup SeqsUpTo(BatchPages, MaxRows)

----------------------------------------------------------------------------
(* The state machine: one call of an operation, then its return *)

\* no request, and the configuration before loadConfig: the zero Config
NoRequest == [Headers |-> <<>>, Body |-> ""]
NoConfig == [DiscordPublicKey |-> <<>>]

Init ==
    /\ op = "idle"
    /\ rows = <<>>
    /\ events = <<>>
    /\ t = ZeroTime
    /\ now = ZeroTime
    /\ out = <<>>
    /\ ret = FALSE
    /\ err = FALSE
    /\ raised = NoError
    /\ calls = <<>>
    /\ pc = "idle"
    /\ req = NoRequest
    /\ cfg = NoConfig

\* SheetSource.parseRow(r), the wall clock reading clock
ParseRow ==
    /\ op = "idle"
    /\ \E r \in SheetRows, clock \in Clocks :
        LET p == parseRow(r, clock)
        IN  /\ op' = "parseRow"
            /\ rows' = <<r>>
            /\ now' = clock
            /\ out' = <<p.event>>
            /\ err' = ~p.ok
    /\ UNCHANGED <<events, t, ret, raised, calls, pc, req, cfg>>

\* SheetSource.filter(es, x)
Filter ==
    /\ op = "idle"
    /\ \E e \in SheetEvents, x \in TargetTimes :
        /\ op' = "filter"
        /\ events' = <<e>>
        /\ t' = x
        /\ out' = filter(<<e>>, x)
    /\ UNCHANGED <<rows, now, ret, err, raised, calls, pc, req, cfg>>

\* SheetSource.Fetch(ctx, x), the reader returning (values, readErr)
FetchSheet ==
    /\ op = "idle"
    /\ \E values \in Sheets, readErr \in {NoError} \cup ReaderErrors,
          x \in FetchTargets, clock \in Clocks :
        LET f == Fetch(values, readErr, x, clock)
        IN  /\ readErr # NoError => values = <<>>
            /\ op' = "Fetch"
            /\ rows' = values
            /\ ret' = (readErr # NoError)
            /\ t' = x
            /\ now' = clock
            /\ out' = f.events
            /\ err' = (f.err # NoError)
            /\ raised' = f.err
            /\ calls' = FetchCalls(values, readErr, clock)
    /\ UNCHANGED <<events, pc, req, cfg>>

\* Client.Do(ctx, x) on a SheetSource, the reader returning (values, readErr)
Do ==
    /\ op = "idle"
    /\ \E values \in Sheets, readErr \in {NoError} \cup ReaderErrors,
          x \in FetchTargets, clock \in Clocks :
        LET f == Fetch(values, readErr, x, clock)
            d == Client_Do(f)
        IN  /\ readErr # NoError => values = <<>>
            /\ op' = "Do"
            /\ rows' = values
            /\ ret' = (readErr # NoError)
            /\ t' = x
            /\ now' = clock
            /\ out' = d.events
            /\ err' = (d.err # NoError)
            /\ raised' = d.err
            /\ calls' = <<[fn |-> "Fetch", err |-> f.err]>> \o FetchCalls(values, readErr, clock)
    /\ UNCHANGED <<events, pc, req, cfg>>

\* parseInterval(s)
ParseInterval ==
    /\ op = "idle"
    /\ \E s \in Labels \cup {sWeekly, sYearly, sOneshot \o sBlank} :
        LET p == parseInterval(s)
        IN  /\ op' = "parseInterval"
            /\ rows' = <<s>>
            /\ ret' = p.interval
            /\ err' = ~p.ok
    /\ UNCHANGED <<events, t, now, out, raised, calls, pc, req, cfg>>

\* Interval.String() of i, and parseInterval of the text
IntervalString ==
    /\ op = "idle"
    /\ \E i \in {-1, onetime, weekly, monthly, yearly, 4} :
        LET p == parseInterval(Interval_String(i))
        IN  /\ op' = "String"
            /\ events' = <<i>>
            /\ rows' = <<Interval_String(i)>>
            /\ ret' = p.interval
            /\ err' = ~p.ok
    /\ UNCHANGED <<t, now, out, raised, calls, pc, req, cfg>>

\* an event written as a row by eventsToValueRange, and parseRow of that row
RoundTrip ==
    /\ op = "idle"
    /\ \E e \in SheetEvents \cup OddEvents, clock \in Clocks :
        LET p == parseRow(eventToRow(e), clock)
        IN  /\ op' = "roundTrip"
            /\ events' = <<e>>
            /\ rows' = <<eventToRow(e)>>
            /\ now' = clock
            /\ out' = <<p.event>>
            /\ err' = ~p.ok
    /\ UNCHANGED <<t, ret, raised, calls, pc, req, cfg>>

\* e.isContain(x) of the typed variant
IsContain ==
    /\ op = "idle"
    /\ \E e \in TypedEvents, x \in TargetTimes :
        /\ op' = "isContain"
        /\ events' = <<e>>
        /\ t' = x
        /\ ret' = Event_isContain(e, x)
    /\ UNCHANGED <<rows, now, out, err, raised, calls, pc, req, cfg>>

\* e.isMatch(x) of the typed variant
IsMatch ==
    /\ op = "idle"
    /\ \E e \in TypedEvents, x \in TargetTimes :
        /\ op' = "isMatch"
        /\ events' = <<e>>
        /\ t' = x
        /\ ret' = Event_isMatch(e, x)
    /\ UNCHANGED <<rows, now, out, err, raised, calls, pc, req, cfg>>

\* getEvents(pages, x)
GetEvents ==
    /\ op = "idle"
    /\ \E ps \in PageBatches, x \in TargetTimes :
        /\ Len(ps) # 1 => x \in FetchTargets
        /\ op' = "getEvents"
        /\ rows' = ps
        /\ t' = x
        /\ out' = getEvents(ps, x)
    /\ UNCHANGED <<events, now, ret, err, raised, calls, pc, req, cfg>>

\* fetchEvents(ctx, cfg, x) on a database holding the pages db
FetchEvents ==
    /\ op = "idle"
    /\ \E db \in PageBatches, httpOK \in BOOLEAN, x \in TargetTimes :
        LET f == fetchEvents(db, httpOK, x)
        IN  /\ Len(db) # 1 => x \in FetchTargets
            /\ ~httpOK => db = <<>>
            /\ op' = "fetchEvents"
            /\ rows' = db
            /\ ret' = httpOK
            /\ t' = x
            /\ out' = f.events
            /\ err' = f.err
    /\ UNCHANGED <<events, now, raised, calls, pc, req, cfg>>

\* the call returns; the next call starts from a fresh invocation
Return ==
    /\ op # "idle"
    /\ op' = "idle"
    /\ rows' = <<>>
    /\ events' = <<>>
    /\ t' = ZeroTime
    /\ now' = ZeroTime
    /\ out' = <<>>
    /\ ret' = FALSE
    /\ err' = FALSE
    /\ raised' = NoError
    /\ calls' = <<>>
    /\ pc' = "idle"
    /\ req' = NoRequest
    /\ cfg' = NoConfig

Next ==
    \/ ParseRow
    \/ Filter
    \/ FetchSheet
    \/ Do
    \/ ParseInterval
    \/ IntervalString
    \/ RoundTrip
    \/ IsContain
    \/ IsMatch
    \/ GetEvents
    \/ FetchEvents
    \/ Return

Spec == Init /\ [][Next]_vars

----------------------------------------------------------------------------
(* The Lambda handlers, step by step: handleRequest of the spreadsheet      *)
(* bot (src/unnamed/part_004), of the Notion bot (src/remind/main.go) and   *)
(* of the slash-command endpoint (src/hello/main.go).  pc is the call the   *)
(* handler makes next; calls is the log of the calls it has made.           *)

\* t.AddDate(0, 0, n) and t.Add(n * 24h) in a zone of fixed offset
AddDays(x, n) == [abs |-> x.abs + 24 * n, off |-> x.off]

\* the target dates of the spreadsheet bot: today at midnight JST, and the day after
SheetTargets(clock) == <<Today(clock), AddDays(Today(clock), 1)>>

\* the target times of the Notion bot: now in JST, and 24 hours later
NotionTargets(clock) == <<In(clock, JSTOffset), AddDays(In(clock, JSTOffset), 1)>>

green == 4176208
gray == 13421772

isToday(x, clock) ==
    LET n == In(clock, JSTOffset)
    IN  Year(x) = Year(n) /\ Month(x) = Month(n) /\ Day(x) = Day(n)

getColorCode(x, clock) == IF isToday(x, clock) THEN green ELSE gray

\* time.Weekday.String()[:3]
WeekdayAbbr(w) ==
    <<<<"S", "u", "n">>, <<"M", "o", "n">>, <<"T", "u", "e">>, <<"W", "e", "d">>,
      <<"T", "h", "u">>, <<"F", "r", "i">>, <<"S", "a", "t">> >>[w + 1]

sIntervalColon == <<"I", "n", "t", "e", "r", "v", "a", "l", ":", " ">>

\* the embed of one schedule; the title's constant suffix is left out
createMessageEmbed(s, clock) ==
    [Title  |-> Format(s.Date, dash) \o <<" ", "(">> \o WeekdayAbbr(Weekday(s.Date)) \o <<")">>,
     Color  |-> getColorCode(s.Date, clock),
     Fields |-> [i \in 1..Len(s.Events) |->
                    [Name |-> s.Events[i].Name, Value |-> sIntervalColon \o s.Events[i].Interval]]]

\* the Discord call that fails in a run of postScheduleToDiscord, "none" if none does
PostFailures == {"none", "New", "Open", "WebhookCreate", "WebhookExecute", "WebhookDelete"}

\* postScheduleToDiscord(cfg, schedules): the Discord calls it makes and the error it returns
postScheduleToDiscord(schedules, fail, clock) ==
    LET embeds  == [i \in 1..Len(schedules) |-> createMessageEmbed(schedules[i], clock)]
        new     == [fn |-> "New", err |-> IF fail = "New" THEN "New failed" ELSE NoError]
        open    == [fn |-> "Open", err |-> IF fail = "Open" THEN "Open failed" ELSE NoError]
        create  == [fn |-> "WebhookCreate",
                    err |-> IF fail = "WebhookCreate" THEN "WebhookCreate failed" ELSE NoError]
        execute == [fn |-> "WebhookExecute", embeds |-> embeds,
                    err |-> IF fail = "WebhookExecute" THEN "WebhookExecute failed" ELSE NoError]
        delete  == [fn |-> "WebhookDelete",
                    err |-> IF fail = "WebhookDelete" THEN "WebhookDelete failed" ELSE NoError]
        close   == [fn |-> "Close", err |-> NoError]
    IN  IF fail = "New" THEN [calls |-> <<new>>, err |-> new.err]
        ELSE IF fail = "Open" THEN [calls |-> <<new, open>>, err |-> open.err]
        ELSE IF fail = "WebhookCreate"
        THEN [calls |-> <<new, open, create, close>>, err |-> create.err]
        ELSE IF fail = "WebhookExecute"
        THEN [calls |-> <<new, open, create, execute, close>>, err |-> execute.err]
        ELSE [calls |-> <<new, open, create, execute, delete, close>>, err |-> NoError]

sheetBot == "handleRequest (sheet)"
notionBot == "handleRequest (notion)"

\* the sheets and databases the bots read in a run
RunSheets ==
    {<<>>,
     <<HeaderRow, <<sA, sWeeklyCap, d20250101, d20250130>> >>,
     <<HeaderRow, <<sB, sDaily, d20250101, d20250130>>, <<sB, sWeekly, d20250102, <<>> >> >>}

RunDatabases ==
    {<<>>,
     <<[Name |-> Prop(sA), Interval |-> Prop(sWeeklyCap), Start |-> Prop(n20250101), End |-> Prop(n20250130)]>>,
     <<[Name |-> Prop(sB), Interval |-> Prop(sWeekly), Start |-> Prop(n20250101), End |-> Absent]>>}

\* lambda.Start(handleRequest): an invocation of a schedule bot begins
InvokeBot ==
    /\ op = "idle"
    /\ \E h \in {sheetBot, notionBot}, clock \in Clocks :
        /\ op' = h
        /\ now' = clock
    /\ pc' = "loadConfig"
    /\ UNCHANGED <<rows, events, t, out, ret, err, raised, calls, req, cfg>>

\* the spreadsheet bot loads its configuration
Sheet_LoadConfig ==
    /\ op = sheetBot
    /\ pc = "loadConfig"
    /\ \E e \in {NoError, "config error"} :
        /\ calls' = Append(calls, [fn |-> "loadConfig", err |-> e])
        /\ IF e # NoError
           THEN pc' = "done" /\ raised' = e /\ err' = TRUE
           ELSE pc' = "NewSheetsService" /\ UNCHANGED <<raised, err>>
    /\ UNCHANGED <<op, rows, events, t, now, out, ret, req, cfg>>

\* it makes the target dates and the Sheets service
Sheet_NewSheetsService ==
    /\ op = sheetBot
    /\ pc = "NewSheetsService"
    /\ \E e \in {NoError, "credentials error"} :
        /\ calls' = Append(calls, [fn |-> "NewSheetsService", err |-> e])
        /\ IF e # NoError
           THEN pc' = "done" /\ raised' = e /\ err' = TRUE /\ t' = t
           ELSE pc' = "Do" /\ t' = SheetTargets(now)[1] /\ UNCHANGED <<raised, err>>
    /\ UNCHANGED <<op, rows, events, now, out, ret, req, cfg>>

\* one pass of its loop over the dates: c.Do(ctx, d) for the date t
Sheet_Do ==
    /\ op = sheetBot
    /\ pc = "Do"
    /\ \E values \in RunSheets, readErr \in {NoError} \cup ReaderErrors :
        LET d == Client_Do(Fetch(values, readErr, t, now))
        IN  /\ readErr # NoError => values = <<>>
            /\ calls' = Append(calls, [fn |-> "Do", date |-> t, err |-> d.err])
            /\ out' = IF d.err # NoError THEN out
                      ELSE Append(out, [Date |-> t, Events |-> d.events])
    /\ IF t = SheetTargets(now)[1]
       THEN pc' = "Do" /\ t' = SheetTargets(now)[2]
       ELSE pc' = "postScheduleToDiscord" /\ t' = t
    /\ UNCHANGED <<op, rows, events, now, ret, err, raised, req, cfg>>

\* it posts the schedules and returns
Sheet_Post ==
    /\ op = sheetBot
    /\ pc = "postScheduleToDiscord"
    /\ \E fail \in PostFailures :
        LET p == postScheduleToDiscord(out, fail, now)
        IN  /\ calls' = calls \o <<[fn |-> "postScheduleToDiscord", schedules |-> out, err |-> p.err]>>
                              \o p.calls
            /\ raised' = p.err
            /\ err' = (p.err # NoError)
    /\ pc' = "done"
    /\ UNCHANGED <<op, rows, events, t, now, out, ret, req, cfg>>

\* the Notion bot loads its configuration and makes the target times
Notion_LoadConfig ==
    /\ op = notionBot
    /\ pc = "loadConfig"
    /\ \E e \in {NoError, "config error"} :
        /\ calls' = Append(calls, [fn |-> "loadConfig", err |-> e])
        /\ IF e # NoError
           THEN pc' = "done" /\ raised' = e /\ err' = TRUE /\ t' = t
           ELSE pc' = "fetchEvents" /\ t' = NotionTargets(now)[1] /\ UNCHANGED <<raised, err>>
    /\ UNCHANGED <<op, rows, events, now, out, ret, req, cfg>>

\* one pass of its loop over the times: fetchEvents(ctx, cfg, t)
Notion_FetchEvents ==
    /\ op = notionBot
    /\ pc = "fetchEvents"
    /\ \E db \in RunDatabases, httpOK \in BOOLEAN :
        LET f == fetchEvents(db, httpOK, t)
            e == IF f.err THEN "fetchEvents failed" ELSE NoError
        IN  /\ ~httpOK => db = <<>>
            /\ calls' = Append(calls, [fn |-> "fetchEvents", date |-> t, err |-> e])
            /\ IF f.err
               THEN pc' = "done" /\ raised' = e /\ err' = TRUE /\ UNCHANGED <<out, t>>
               ELSE /\ out' = Append(out, [Date |-> t, Events |-> f.events])
                    /\ IF t = NotionTargets(now)[1]
                       THEN pc' = "fetchEvents" /\ t' = NotionTargets(now)[2]
                       ELSE pc' = "postScheduleToDiscord" /\ t' = t
                    /\ UNCHANGED <<raised, err>>
    /\ UNCHANGED <<op, rows, events, now, ret, req, cfg>>

\* it posts the schedules and returns
Notion_Post ==
    /\ op = notionBot
    /\ pc = "postScheduleToDiscord"
    /\ \E fail \in PostFailures :
        LET p == postScheduleToDiscord(out, fail, now)
        IN  /\ calls' = calls \o <<[fn |-> "postScheduleToDiscord", schedules |-> out, err |-> p.err]>>
                              \o p.calls
            /\ raised' = p.err
            /\ err' = (p.err # NoError)
    /\ pc' = "done"
    /\ UNCHANGED <<op, rows, events, t, now, out, ret, req, cfg>>

helloBot == "handleRequest (hello)"

Ping == 1
ApplicationCommand == 2
Pong == 1
Message == 4

\* ed25519.PublicKeySize and ed25519.SignatureSize, in bytes
PublicKeySize == 32
SignatureSize == 64

HexDigits == <<"0", "1", "2", "3", "4", "5", "6", "7", "8", "9", "a", "b", "c", "d", "e", "f">>
HexUpper == <<"0", "1", "2", "3", "4", "5", "6", "7", "8", "9", "A", "B", "C", "D", "E", "F">>

IsHex(c) == \E i \in 1..16 : HexDigits[i] = c \/ HexUpper[i] = c
HexVal(c) == (CHOOSE i \in 1..16 : HexDigits[i] = c \/ HexUpper[i] = c) - 1

\* hex.DecodeString(s): the bytes s spells, or an error for an odd length or a
\* character that is no hex digit
HexDecode(s) ==
    IF Len(s) % 2 # 0 \/ \E i \in 1..Len(s) : ~IsHex(s[i])
    THEN [ok |-> FALSE, bytes |-> <<>>]
    ELSE [ok |-> TRUE,
          bytes |-> [i \in 1..(Len(s) \div 2) |-> 16 * HexVal(s[2 * i - 1]) + HexVal(s[2 * i])]]

\* req.Headers[name]: the empty string for a header that is not there
Header(r, name) == IF name \in DOMAIN r.Headers THEN r.Headers[name] ELSE <<>>

\* ed25519.Verify(publicKey, message, sig).  r.Signed tells which key signed
\* which timestamp and body to make the signature the request carries; the
\* signature verifies iff that key and that message are the ones given here.
\* A key of the wrong size makes Verify panic.
Verify(publicKey, timestamp, body, sig, r) ==
    IF Len(publicKey) # PublicKeySize THEN "panic"
    ELSE IF Len(sig) # SignatureSize THEN "false"
    ELSE IF r.Signed.key = publicKey /\ r.Signed.timestamp = timestamp /\ r.Signed.body = body
    THEN "true"
    ELSE "false"

\* mutant: a signature that does not verify is let through
verifySignature_noVerify(c, r) ==
    LET publicKey    == HexDecode(c.DiscordPublicKey)
        signatureHex == Header(r, "x-signature-ed25519")
        timestamp    == Header(r, "x-signature-timestamp")
        signature    == HexDecode(signatureHex)
    IN  IF ~publicKey.ok THEN "public key format is invalid"
        ELSE IF signatureHex = <<>> THEN "signature is blank"
        ELSE IF timestamp = <<>> THEN "timestamp is blank"
        ELSE IF ~signature.ok THEN "invalid hex"
        ELSE NoError

\* verifySignature(cfg, req): the error it returns, or "panic"
verifySignature(c, r) ==
    LET publicKey    == HexDecode(c.DiscordPublicKey)
        signatureHex == Header(r, "x-signature-ed25519")
        timestamp    == Header(r, "x-signature-timestamp")
        signature    == HexDecode(signatureHex)
        verified     == Verify(publicKey.bytes, timestamp, r.Body, signature.bytes, r)
    IN  IF ~publicKey.ok THEN "public key format is invalid"
        ELSE IF signatureHex = <<>> THEN "signature is blank"
        ELSE IF timestamp = <<>> THEN "timestamp is blank"
        ELSE IF ~signature.ok THEN "invalid hex"
        ELSE IF verified = "panic" THEN "panic"
        ELSE IF verified = "false" THEN "signature format is invalid"
        ELSE NoError

\* the request bodies of the model
bPing == "{\"type\":1}"
bHello == "{\"type\":2,\"data\":{\"name\":\"hello\"}}"
bOther == "{\"type\":2,\"data\":{\"name\":\"bye\"}}"
bType3 == "{\"type\":3}"
bNoType == "{}"
bNotJSON == "not json"

Bodies == {bPing, bHello, bOther, bType3, bNoType, bNotJSON, ""}

\* parseRequest(body): json.Unmarshal into a Request, on the bodies of the model
parseRequest(body) ==
    IF body = bPing THEN [ok |-> TRUE, request |-> [Type |-> 1, Data |-> [Name |-> ""]]]
    ELSE IF body = bHello THEN [ok |-> TRUE, request |-> [Type |-> 2, Data |-> [Name |-> "hello"]]]
    ELSE IF body = bOther THEN [ok |-> TRUE, request |-> [Type |-> 2, Data |-> [Name |-> "bye"]]]
    ELSE IF body = bType3 THEN [ok |-> TRUE, request |-> [Type |-> 3, Data |-> [Name |-> ""]]]
    ELSE IF body = bNoType THEN [ok |-> TRUE, request |-> [Type |-> 0, Data |-> [Name |-> ""]]]
    ELSE [ok |-> FALSE, request |-> [Type |-> 0, Data |-> [Name |-> ""]]]

handleCommand(request) ==
    IF request.Data.Name = "hello"
    THEN [ok |-> TRUE, response |-> [Type |-> Message, Content |-> "hello, world!"]]
    ELSE [ok |-> TRUE, response |-> [Type |-> Message, Content |-> "unknown command"]]

handleRequestType(request) ==
    IF request.Type = Ping THEN [ok |-> TRUE, response |-> [Type |-> Pong, Content |-> ""]]
    ELSE IF request.Type = ApplicationCommand THEN handleCommand(request)
    ELSE [ok |-> FALSE, response |-> [Type |-> 0, Content |-> ""]]

\* json.Marshal of a Response; Data is left out of the JSON when nil
MarshalResponse(r) ==
    IF r.Type = Pong THEN "{\"type\":1}"
    ELSE IF r.Content = "hello, world!"
    THEN "{\"type\":4,\"data\":{\"content\":\"hello, world!\"}}"
    ELSE "{\"type\":4,\"data\":{\"content\":\"unknown command\"}}"

\* createResponse(statusCode, body), body already marshalled
createResponse(statusCode, body) == [StatusCode |-> statusCode, Body |-> body]

sInvalidRequest == "\"invalid request\""
sInternalError == "\"internal server error\""

RECURSIVE Rep(_, _)
Rep(s, n) == IF n = 0 THEN <<>> ELSE s \o Rep(s, n - 1)

\* configured public keys: a proper key, text that is no hex, a key of two bytes
kGood == Rep(<<"a", "b">>, PublicKeySize)
kOther == Rep(<<"1", "2">>, PublicKeySize)
kNotHex == <<"k", "e", "y">>
kShort == <<"a", "b", "c", "d">>
Keys == {kGood, kNotHex, kShort}

\* signature headers: a signature of the proper size, text that is no hex,
\* hex of odd length, two bytes only
xSig == Rep(<<"C", "D">>, SignatureSize)
xNotHex == <<"s", "i", "g">>
xOdd == <<"a", "b", "c">>
xShort == <<"a", "b", "c", "d">>

sTimestamp == <<"1", "7", "0", "0", "0", "0", "0", "0", "0", "0">>
sLater == <<"1", "7", "0", "0", "0", "0", "0", "0", "6", "0">>

NoHeaders == [h \in {} |-> <<>>]

HeaderSets ==
    {NoHeaders}
    \cup {"x-signature-timestamp" :> sTimestamp}
    \cup {("x-signature-ed25519" :> x) : x \in {xSig, xNotHex}}
    \cup {("x-signature-ed25519" :> x) @@ ("x-signature-timestamp" :> ts) :
              x \in {xSig, xNotHex, xOdd, xShort, <<>>}, ts \in {sTimestamp, <<>>}}

\* what the signature of a request was made over: the timestamp and body it
\* carries or others, with the configured key or another one
Requests ==
    UNION {{[Headers |-> hs, Body |-> b,
             Signed |-> [key |-> HexDecode(k).bytes, timestamp |-> ts, body |-> sb]] :
                hs \in HeaderSets, k \in {kGood, kOther},
                ts \in {sTimestamp, sLater}, sb \in {b, bPing}} : b \in Bodies}

\* lambda.Start(handleRequest): the endpoint is invoked with a request
InvokeHello ==
    /\ op = "idle"
    /\ op' = helloBot
    /\ \E r \in Requests : req' = r
    /\ pc' = "loadConfig"
    /\ UNCHANGED <<rows, events, t, now, out, ret, err, raised, calls, cfg>>

\* a failing step: the handler returns the response and the error
Reject(statusCode, body, e) ==
    /\ pc' = "done"
    /\ out' = <<createResponse(statusCode, body)>>
    /\ raised' = e
    /\ err' = TRUE

Hello_LoadConfig ==
    /\ op = helloBot
    /\ pc = "loadConfig"
    /\ \E e \in {NoError, "config error"}, k \in Keys :
        /\ calls' = Append(calls, [fn |-> "loadConfig", err |-> e])
        /\ IF e # NoError
           THEN k = kGood /\ cfg' = cfg /\ Reject(500, sInternalError, e)
           ELSE /\ cfg' = [DiscordPublicKey |-> k]
                /\ pc' = "verifySignature"
                /\ UNCHANGED <<out, raised, err>>
    /\ UNCHANGED <<op, rows, events, t, now, ret, req>>

Hello_VerifySignature ==
    /\ op = helloBot
    /\ pc = "verifySignature"
    /\ LET e == verifySignature(cfg, req)
       IN  /\ calls' = Append(calls, [fn |-> "verifySignature", err |-> e])
           /\ IF e = "panic"
              THEN pc' = "done" /\ raised' = e /\ err' = TRUE /\ out' = out
              ELSE IF e # NoError THEN Reject(400, sInvalidRequest, e)
              ELSE pc' = "parseRequest" /\ UNCHANGED <<out, raised, err>>
    /\ UNCHANGED <<op, rows, events, t, now, ret, req, cfg>>

Hello_ParseRequest ==
    /\ op = helloBot
    /\ pc = "parseRequest"
    /\ LET p == parseRequest(req.Body)
           e == IF p.ok THEN NoError ELSE "invalid JSON"
       IN  /\ calls' = Append(calls, [fn |-> "parseRequest", err |-> e])
           /\ IF ~p.ok
              THEN rows' = rows /\ Reject(400, sInvalidRequest, e)
              ELSE /\ rows' = <<p.request>>
                   /\ pc' = "handleRequestType"
                   /\ UNCHANGED <<out, raised, err>>
    /\ UNCHANGED <<op, events, t, now, ret, req, cfg>>

Hello_HandleRequestType ==
    /\ op = helloBot
    /\ pc = "handleRequestType"
    /\ LET h == handleRequestType(rows[1])
           e == IF h.ok THEN NoError ELSE "unknown interaction type"
       IN  /\ calls' = Append(calls, [fn |-> "handleRequestType", err |-> e])
                        \o (IF rows[1].Type = ApplicationCommand
                            THEN <<[fn |-> "handleCommand", err |-> NoError]>> ELSE <<>>)
           /\ IF ~h.ok
              THEN Reject(400, sInvalidRequest, e)
              ELSE /\ pc' = "done"
                   /\ out' = <<createResponse(200, MarshalResponse(h.response))>>
                   /\ UNCHANGED <<raised, err>>
    /\ UNCHANGED <<op, rows, events, t, now, ret, req, cfg>>

\* the handler has returned; the runtime is ready for the next invocation
Done ==
    /\ pc = "done"
    /\ Return

RunNext ==
    \/ InvokeBot
    \/ Sheet_LoadConfig
    \/ Sheet_NewSheetsService
    \/ Sheet_Do
    \/ Sheet_Post
    \/ Notion_LoadConfig
    \/ Notion_FetchEvents
    \/ Notion_Post
    \/ InvokeHello
    \/ Hello_LoadConfig
    \/ Hello_VerifySignature
    \/ Hello_ParseRequest
    \/ Hello_HandleRequestType
    \/ Done

\* the Lambda runtime runs an invoked handler until it returns
RunSpec ==
    /\ Init
    /\ [][RunNext]_vars
    /\ WF_vars(Sheet_LoadConfig) /\ WF_vars(Sheet_NewSheetsService)
    /\ WF_vars(Sheet_Do) /\ WF_vars(Sheet_Post)
    /\ WF_vars(Notion_LoadConfig) /\ WF_vars(Notion_FetchEvents) /\ WF_vars(Notion_Post)
    /\ WF_vars(Hello_LoadConfig) /\ WF_vars(Hello_VerifySignature)
    /\ WF_vars(Hello_ParseRequest) /\ WF_vars(Hello_HandleRequestType)
    /\ WF_vars(Done)

----------------------------------------------------------------------------
(* Reference notions the properties are stated in *)

\* the civil date of a time, in its own zone
CivilOf(x) == <<Year(x), Month(x), Day(x)>>

\* a <= b on civil dates
CivilLE(a, b) ==
    \/ a[1] < b[1]
    \/ a[1] = b[1] /\ a[2] < b[2]
    \/ a[1] = b[1] /\ a[2] = b[2] /\ a[3] <= b[3]

\* a date-only value: midnight in the reference zone
IsDateOnly(x) == x.off = JSTOffset /\ (x.abs + x.off) % 24 = 0

\* the instant x lies between the instants a and b
InWindow(a, x, b) == a.abs <= x.abs /\ x.abs <= b.abs

\* the recurrence kind a string label stands for in the string-typed variants
KindOfLabel(l) ==
    IF l = sOneshot THEN "onetime"
    ELSE IF l \in {sWeekly, sWeeklyCap} THEN "weekly"
    ELSE IF l = sMonthly THEN "monthly"
    ELSE IF l \in {sYearly, sYearlyUp} THEN "yearly"
    ELSE "unknown"

\* the recurrence kind of a typed interval
KindOfInterval(i) ==
    IF i = 0 THEN "onetime"
    ELSE IF i = 1 THEN "weekly"
    ELSE IF i = 2 THEN "monthly"
    ELSE IF i = 3 THEN "yearly"
    ELSE "unknown"

\* the match table of the specification
Table(kind, start, x) ==
    IF kind = "onetime" THEN CivilOf(x) = CivilOf(start)
    ELSE IF kind = "weekly" THEN (LocalDays(x) - LocalDays(start)) % 7 = 0
    ELSE IF kind = "monthly" THEN CivilOf(x)[3] = CivilOf(start)[3]
    ELSE IF kind = "yearly" THEN CivilOf(x)[2] = CivilOf(start)[2] /\ CivilOf(x)[3] = CivilOf(start)[3]
    ELSE FALSE

Recurring == {"weekly", "monthly", "yearly"}

\* the civil date a ten-character date text spells
DateOf(v) == <<Atoi(SubSeq(v, 1, 4)), Atoi(SubSeq(v, 6, 7)), Atoi(SubSeq(v, 9, 10))>>

\* a date written YYYY/MM/DD
IsCanonical(s) ==
    /\ Len(s) = 10
    /\ s[5] = "/"
    /\ s[8] = "/"
    /\ \A i \in {1, 2, 3, 4, 6, 7, 9, 10} : IsDigit(s[i])
    /\ DateOf(s)[2] \in 1..12
    /\ DateOf(s)[3] \in 1..DaysIn(DateOf(s)[2], DateOf(s)[1])

\* cell i of row r holds text that is no such date
BadDateCell(r, i) == Len(r) >= i /\ Sprintf(r[i]) # <<>> /\ ~IsCanonical(Sprintf(r[i]))

\* a page property that holds a plain calendar date
HasDate(prop) == prop.has /\ Len(prop.val) = 10

----------------------------------------------------------------------------
(* C1: the bounds check of the sheet pipeline accepts a target date d iff   *)
(* Start <= d <= End as calendar dates, both ends included: isContain       *)
(* returns exactly that, and filter keeps a recurrence-matched event        *)
(* exactly then; start 2025-01-01, end 2025-01-10 accepts 2025-01-01 and    *)
(* 2025-01-10 and rejects 2024-12-31 and 2025-01-11.                        *)
C1_BoundsInclusive ==
    /\ (op = "isContain" /\ IsDateOnly(t)) =>
          (ret <=> (/\ CivilLE(CivilOf(events[1].StartDate), CivilOf(t))
                    /\ CivilLE(CivilOf(t), CivilOf(events[1].EndDate))))
    /\ (op = "isContain" /\ events[1].StartDate = JST(<<2025, 1, 1>>)
                         /\ events[1].EndDate = JST(<<2025, 1, 10>>)) =>
          /\ t \in {JST(<<2025, 1, 1>>), JST(<<2025, 1, 10>>)} => ret
          /\ t \in {JST(<<2024, 12, 31>>), JST(<<2025, 1, 11>>)} => ~ret
    /\ (op = "filter" /\ IsDateOnly(t)) =>
          LET e == events[1]
              inb == CivilLE(CivilOf(e.Start), CivilOf(t)) /\ CivilLE(CivilOf(t), CivilOf(e.End))
          IN  /\ out # <<>> => inb
              /\ (inb /\ Table(KindOfLabel(e.Interval), e.Start, t)) => out = <<e>>

\* C1 witness: a weekly event is kept by filter on its end date.
C1_Witness ==
    /\ op = "filter"
    /\ events[1].Interval = sWeeklyCap
    /\ events[1].Start = JST(<<2025, 1, 1>>)
    /\ events[1].End = JST(<<2025, 1, 15>>)
    /\ t = JST(<<2025, 1, 15>>)
    /\ out = events

----------------------------------------------------------------------------
(* C2: in the Notion pipeline the end bound is inclusive like the start     *)
(* bound: a page whose End is the target's calendar date, whose Start is    *)
(* on or before it and whose interval matches it is returned as due.        *)
C2_NotionEndInclusive ==
    (/\ op = "fetchEvents"
     /\ ret
     /\ Len(rows) = 1
     /\ HasDate(rows[1].Start)
     /\ HasDate(rows[1].End)
     /\ rows[1].Interval.has
     /\ DateOf(rows[1].End.val) = CivilOf(t)
     /\ CivilLE(DateOf(rows[1].Start.val), CivilOf(t))
     /\ Table(KindOfLabel(rows[1].Interval.val), UTC(DateOf(rows[1].Start.val)), t))
    => out # <<>>

----------------------------------------------------------------------------
(* C3: an event without an end date has no upper bound: it is in bounds     *)
(* for a target date d iff d >= Start, so that a recurrence-matched event   *)
(* is returned exactly when d >= Start, also for d after the wall clock's   *)
(* day.  Sheet rows with a missing or empty end cell, and Notion pages      *)
(* without End.                                                             *)
C3_NoEndNoUpperBound ==
    /\ (/\ op = "Fetch"
        /\ ~ret
        /\ Len(rows) = 2
        /\ Len(rows[2]) >= 3
        /\ Len(rows[2]) = 3 \/ rows[2][4] = <<>>
        /\ rows[2][1] # <<>>
        /\ IsCanonical(rows[2][3])
        /\ Table(KindOfLabel(rows[2][2]), JST(DateOf(rows[2][3])), t))
       => (out # <<>> <=> CivilLE(DateOf(rows[2][3]), CivilOf(t)))
    /\ (/\ op = "fetchEvents"
        /\ ret
        /\ Len(rows) = 1
        /\ HasDate(rows[1].Start)
        /\ ~rows[1].End.has
        /\ rows[1].Interval.has
        /\ Table(KindOfLabel(rows[1].Interval.val), UTC(DateOf(rows[1].Start.val)), t))
       => (out # <<>> <=> CivilLE(DateOf(rows[1].Start.val), CivilOf(t)))

----------------------------------------------------------------------------
(* C4: a one-time event matches a target d iff d has the year, month and    *)
(* day of the event's start, whatever d's time of day: the typed isMatch,   *)
(* validateEvent on a page without End, and filter on an event whose        *)
(* window d lies in.                                                        *)
C4_OneTimeSameDate ==
    /\ (op = "isMatch" /\ events[1].Interval = onetime) =>
          (ret <=> CivilOf(t) = CivilOf(events[1].StartDate))
    /\ (/\ op = "getEvents"
        /\ Len(rows) = 1
        /\ HasDate(rows[1].Start)
        /\ ~rows[1].End.has
        /\ rows[1].Interval = Prop(sOneshot))
       => (out # <<>> <=> CivilOf(t) = DateOf(rows[1].Start.val))
    /\ (/\ op = "filter"
        /\ events[1].Interval = sOneshot
        /\ CivilLE(CivilOf(events[1].Start), CivilOf(t))
        /\ CivilLE(CivilOf(t), CivilOf(events[1].End))
        /\ CivilOf(t) # CivilOf(events[1].End))
       => (out # <<>> <=> CivilOf(t) = CivilOf(events[1].Start))

----------------------------------------------------------------------------
(* C5: for the recurring intervals the match equals the table: WEEKLY iff   *)
(* the weekdays agree (a whole number of weeks from Start), MONTHLY iff     *)
(* the days of the month agree, YEARLY iff month and day agree; in all      *)
(* three variants, and on the scenarios of the specification.               *)
C5_RecurringTable ==
    /\ (op = "isMatch" /\ KindOfInterval(events[1].Interval) \in Recurring) =>
          (ret <=> Table(KindOfInterval(events[1].Interval), events[1].StartDate, t))
    /\ (op = "isMatch" /\ events[1].Interval = weekly /\ events[1].StartDate = JST(<<2025, 1, 1>>)) =>
          /\ t \in {JST(<<2025, 1, 8>>), JST(<<2025, 1, 15>>)} => ret
          /\ t = JST(<<2025, 1, 2>>) => ~ret
    /\ (op = "isMatch" /\ events[1].Interval = yearly /\ events[1].StartDate = JST(<<2025, 3, 15>>)) =>
          /\ t = JST(<<2030, 3, 15>>) => ret
          /\ t = JST(<<2026, 3, 16>>) => ~ret
    /\ (/\ op = "filter"
        /\ KindOfLabel(events[1].Interval) \in Recurring
        /\ InWindow(events[1].Start, t, events[1].End))
       => (out # <<>> <=> Table(KindOfLabel(events[1].Interval), events[1].Start, t))
    /\ (/\ op = "getEvents"
        /\ Len(rows) = 1
        /\ HasDate(rows[1].Start)
        /\ ~rows[1].End.has
        /\ rows[1].Interval.has
        /\ KindOfLabel(rows[1].Interval.val) \in Recurring)
       => (out # <<>> <=>
             Table(KindOfLabel(rows[1].Interval.val), UTC(DateOf(rows[1].Start.val)), t))

\* C5 witness: the sheet filter keeps the yearly event of 2025-03-15 on 2030-03-15.
C5_Witness ==
    /\ op = "filter"
    /\ events[1].Interval = sYearlyUp
    /\ events[1].Start = JST(<<2025, 3, 15>>)
    /\ t = JST(<<2030, 3, 15>>)
    /\ out = events

----------------------------------------------------------------------------
\* a data row, a page, whose interval no matcher of its variant knows
UnknownRow(r) == Len(r) >= 2 /\ KindOfLabel(r[2]) = "unknown"
UnknownPage(pg) == ~pg.Interval.has \/ KindOfLabel(pg.Interval.val) = "unknown"

(* C6: an event whose interval is unknown or unset never matches, and the   *)
(* case is not fatal: Fetch and getEvents return without error, return no   *)
(* event of unknown interval, and return what they return for the same      *)
(* batch without the rows (pages) of unknown interval.                      *)

----------------------------------------------------------------------------
\* a label that is, in any case, one of the labels of the specification
Recognised(l) == ToLower(l) \in {sOnetime, sOneshot, sWeekly, sMonthly, sYearly}

(* C7: row parsing accepts an interval label only if it is, in any case,    *)
(* one of onetime/oneshot, weekly, monthly, yearly: parseRow fails on any   *)
(* other label, and parseInterval accepts none.                             *)

C7_UnknownLabelRejected ==
    /\ (op = "parseRow" /\ Len(rows[1]) >= 2 /\ ~Recognised(Sprintf(rows[1][2]))) => err
    /\ (op = "parseInterval" /\ ~err) => Recognised(rows[1])

----------------------------------------------------------------------------
(* C8: parseRow returns an error for every row of fewer than 4 cells.       *)
C8_ShortRowRejected ==
    (op = "parseRow" /\ Len(rows[1]) < 4) => err

----------------------------------------------------------------------------
\* empty, or spaces only
IsBlank(s) == \A i \in 1..Len(s) : s[i] = " "

(* C9: parseRow returns an error for every row whose name cell is missing,  *)
(* empty or only whitespace, and yields no Event of such a name.            *)

C9_BlankNameRejected ==
    op = "parseRow" =>
        /\ (Len(rows[1]) = 0 \/ IsBlank(Sprintf(rows[1][1]))) => err
        /\ ~err => ~IsBlank(out[1].Name)

\* C9 as amended: parseRow returns an error for every row whose name cell is
\* missing or the empty string, and an Event it yields has a non-empty name,
\* the cell's text as it is (untrimmed).
C9_EmptyNameRejected ==
    op = "parseRow" =>
        /\ (Len(rows[1]) = 0 \/ rows[1][1] = <<>>) => err
        /\ ~err => /\ out[1].Name # <<>>
                   /\ rows[1][1] # NilCell => out[1].Name = rows[1][1]

\* C9 witness: a row whose name is one space parses, the name kept as it is.
C9_Witness ==
    /\ op = "parseRow"
    /\ Len(rows[1]) = 4
    /\ rows[1][1] = sBlank
    /\ ~err
    /\ out[1].Name = sBlank

----------------------------------------------------------------------------
(* C10: parseRow returns an error whenever the start or the end cell holds  *)
(* non-empty text that is not a date written YYYY/MM/DD, and a well-formed  *)
(* row yields an Event whose Start and End are the dates written, at        *)
(* midnight JST.                                                            *)

C10_DateCells ==
    op = "parseRow" =>
        LET r == rows[1]
            wellFormed == /\ Len(r) = 4
                          /\ Sprintf(r[1]) # <<>>
                          /\ Sprintf(r[2]) # <<>>
                          /\ IsCanonical(Sprintf(r[3]))
                          /\ IsCanonical(Sprintf(r[4]))
        IN  /\ (BadDateCell(r, 3) \/ BadDateCell(r, 4)) => err
            /\ wellFormed =>
                  /\ ~err
                  /\ IsDateOnly(out[1].Start)
                  /\ IsDateOnly(out[1].End)
                  /\ CivilOf(out[1].Start) = DateOf(r[3])
                  /\ CivilOf(out[1].End) = DateOf(r[4])

\* C10 witness: a row with the cells of TestParseRow's valid row parses to
\* 2025-01-01 .. 2025-01-02, each at midnight JST.
C10_Witness ==
    /\ op = "parseRow"
    /\ rows[1] = <<sA, sDaily, d20250101, d20250102>>
    /\ ~err
    /\ out[1].Start = [abs |-> DaysFromCivil(2025, 1, 1) * 24 - 9, off |-> 9]
    /\ out[1].End = [abs |-> DaysFromCivil(2025, 1, 2) * 24 - 9, off |-> 9]

----------------------------------------------------------------------------
(* C11: when the reader (SheetDataReader.GetValues) returns an error, Fetch *)
(* returns that same error value and no events, having called the reader    *)
(* exactly once and parseRow not at all; Client.Do returns the error of     *)
(* Fetch unchanged, with no events.                                         *)
C11_ReaderErrorPropagates ==
    /\ (op = "Fetch" /\ calls[1].err # NoError) =>
          /\ raised = calls[1].err
          /\ err
          /\ out = <<>>
          /\ calls = <<[fn |-> "GetValues", err |-> raised]>>
    /\ (op = "Do" /\ calls[1].err # NoError) =>
          /\ raised = calls[1].err
          /\ raised = calls[2].err
          /\ err
          /\ out = <<>>
          /\ calls = <<[fn |-> "Fetch", err |-> raised], [fn |-> "GetValues", err |-> raised]>>

\* C11 witness: the reader fails with "quota exceeded" and Fetch returns that error.
C11_Witness ==
    /\ op = "Fetch"
    /\ calls[1] = [fn |-> "GetValues", err |-> "quota exceeded"]
    /\ raised = "quota exceeded"
    /\ out = <<>>

----------------------------------------------------------------------------
(* C12: when the reader succeeds with fewer than two rows (no row at all,   *)
(* or the header row alone, a header of fewer than four cells included),    *)
(* Fetch returns an empty event sequence and no error.                      *)
C12_HeaderOnlyIsEmpty ==
    (op \in {"Fetch", "Do"} /\ ~ret /\ Len(rows) < 2) =>
        /\ out = <<>>
        /\ ~err
        /\ raised = NoError
        /\ \A i \in 1..Len(calls) : calls[i].fn # "parseRow"

\* C12 witness: Fetch on a sheet that holds a three-cell header row only.
C12_Witness ==
    /\ op = "Fetch"
    /\ ~ret
    /\ rows = <<ShortHeaderRow>>
    /\ out = <<>>
    /\ ~err

----------------------------------------------------------------------------
\* the events Fetch returns for the header and the data rows rs, one after another
RECURSIVE RowByRow(_, _, _, _)
RowByRow(header, rs, x, clock) ==
    IF rs = <<>> THEN <<>>
    ELSE Fetch(<<header, Head(rs)>>, NoError, x, clock).events
         \o RowByRow(header, Tail(rs), x, clock)

(* C13: a data row that fails to parse never makes Fetch return an error    *)
(* and never changes what the other rows contribute: Fetch returns what it  *)
(* returns for the same sheet without the malformed rows, which is what     *)
(* its rows contribute one by one.                                          *)
C13_RowFailuresIsolated ==
    (op = "Fetch" /\ ~ret /\ Len(rows) >= 2) =>
        /\ ~err
        /\ raised = NoError
        /\ out = Fetch(<<rows[1]>> \o SelectSeq(Tail(rows), LAMBDA r : parseRow(r, now).ok),
                       NoError, t, now).events
        /\ out = RowByRow(rows[1], Tail(rows), t, now)

\* C13 witness: a row with unreadable dates comes first, the due weekly row after it is returned.
C13_Witness ==
    /\ op = "Fetch"
    /\ rows = <<HeaderRow, <<sA, sDaily, dDashed, dNotADate>>,
                <<sB, sWeekly, d20250101, <<>> >> >>
    /\ ~parseRow(rows[2], now).ok
    /\ t = JST(<<2025, 1, 8>>)
    /\ ~err
    /\ Len(out) = 1
    /\ out[1].Name = sB

----------------------------------------------------------------------------
\* an event is due on the date of x: in bounds, both ends included, and matched by the table
Due(e, x) ==
    /\ CivilLE(CivilOf(e.Start), CivilOf(x))
    /\ CivilLE(CivilOf(x), CivilOf(e.End))
    /\ Table(KindOfLabel(ToLower(e.Interval)), e.Start, x)

----------------------------------------------------------------------------
\* the date-level fetches a bot has made in this run, and its calls of the notifier
Fetches == SelectSeq(calls, LAMBDA c : c.fn \in {"Do", "fetchEvents"})
Posts == SelectSeq(calls, LAMBDA c : c.fn = "postScheduleToDiscord")

\* the dates of the fetches that succeeded, in order
RECURSIVE FetchedDates(_)
FetchedDates(fs) ==
    IF fs = <<>> THEN <<>>
    ELSE (IF Head(fs).err = NoError THEN <<Head(fs).date>> ELSE <<>>) \o FetchedDates(Tail(fs))

\* a run of one of the schedule bots that has got as far as its fetches
InBotRun == op \in {sheetBot, notionBot} /\ Len(Fetches) >= 1

(* C15: in one run of handleRequest over today and tomorrow, a fetch that   *)
(* fails for one date does not keep the fetch for the other date from       *)
(* being attempted, and the schedules of the dates whose fetch succeeded    *)
(* are handed to the notifier: the handler never leaves its fetch loop      *)
(* after one fetch only, a first fetch leads to the second, a fetch leads   *)
(* to a call of the notifier, and that call carries exactly the schedules   *)
(* of the dates fetched successfully.                                       *)
C15_FetchFailuresIsolated ==
    /\ []((InBotRun /\ pc \in {"postScheduleToDiscord", "done"}) => Len(Fetches) = 2)
    /\ []((InBotRun /\ pc = "done") => Len(Posts) = 1)
    /\ []((InBotRun /\ Len(Posts) = 1) =>
            /\ Len(Posts[1].schedules) = Len(FetchedDates(Fetches))
            /\ \A i \in 1..Len(Posts[1].schedules) :
                  Posts[1].schedules[i].Date = FetchedDates(Fetches)[i])
    /\ (InBotRun /\ Len(Fetches) = 1) ~> (InBotRun /\ Len(Fetches) = 2)
    /\ InBotRun ~> (InBotRun /\ Len(Posts) = 1)

----------------------------------------------------------------------------
(* C16: the run of handleRequest returns an error if the fetch of every     *)
(* target date failed or if the notification step failed, and returns nil   *)
(* otherwise; when both fetches fail the run fails even if the post to the  *)
(* channel succeeds.                                                        *)
C16_RunFailsWhenAllFetchesFail ==
    (op = sheetBot /\ pc = "done" /\ Len(Fetches) = 2) =>
        (err <=> \/ \A i \in 1..2 : Fetches[i].err # NoError
                 \/ Posts[1].err # NoError)

----------------------------------------------------------------------------
\* the calls of verifySignature in this run of the slash-command handler
Verifications == SelectSeq(calls, LAMBDA c : c.fn = "verifySignature")

\* the business logic of the slash-command handler
IsBusiness(c) == c.fn \in {"parseRequest", "handleRequestType", "handleCommand"}

\* the signature the request carries was not made over its timestamp and
\* body with the configured key
NotSignedAsSent ==
    \/ req.Signed.key # HexDecode(cfg.DiscordPublicKey).bytes
    \/ req.Signed.timestamp # Header(req, "x-signature-timestamp")
    \/ req.Signed.body # req.Body

(* C17: in the slash-command handler the signature is verified before any   *)
(* business logic.  When verifySignature fails (no signature header, no     *)
(* timestamp header, a key or signature that is no hex, or a signature      *)
(* that does not verify over timestamp+body) handleRequest returns an       *)
(* error response and an error, and parseRequest, handleRequestType and     *)
(* handleCommand are not run; a response of status 200 is made only after   *)
(* a verification that succeeded; the handler goes to parseRequest only     *)
(* from a verification that returned nil.                                   *)
C17_VerifyBeforeBusinessLogic ==
    /\ [](op = helloBot =>
            /\ \A i \in 1..Len(calls) :
                  IsBusiness(calls[i]) =>
                      \E j \in 1..(i - 1) :
                          calls[j].fn = "verifySignature" /\ calls[j].err = NoError
            /\ (Verifications # <<>> /\ Verifications[1].err # NoError) =>
                  /\ pc = "done"
                  /\ err
                  /\ raised = Verifications[1].err
                  /\ \A i \in 1..Len(calls) : ~IsBusiness(calls[i])
                  /\ \A i \in 1..Len(out) : out[i].StatusCode # 200
                  /\ Verifications[1].err # "panic" =>
                        out = <<createResponse(400, sInvalidRequest)>>
            /\ (Verifications # <<>> /\
                    \/ Header(req, "x-signature-ed25519") = <<>>
                    \/ Header(req, "x-signature-timestamp") = <<>>
                    \/ ~HexDecode(cfg.DiscordPublicKey).ok
                    \/ ~HexDecode(Header(req, "x-signature-ed25519")).ok
                    \/ NotSignedAsSent) => Verifications[1].err # NoError
            /\ (out # <<>> /\ out[1].StatusCode = 200) =>
                  Verifications # <<>> /\ Verifications[1].err = NoError)
    /\ [][(op = helloBot /\ pc' = "parseRequest") =>
             (pc = "verifySignature" /\ verifySignature(cfg, req) = NoError)]_vars

\* C17 witness: a request whose signature was made over another body is
\* answered with status 400, and no business logic has run.
C17_Witness ==
    /\ op = helloBot
    /\ pc = "done"
    /\ req.Body = bHello
    /\ req.Signed.body = bPing
    /\ Verifications # <<>>
    /\ Verifications[1].err = "signature format is invalid"
    /\ out = <<createResponse(400, sInvalidRequest)>>
    /\ \A i \in 1..Len(calls) : ~IsBusiness(calls[i])

----------------------------------------------------------------------------
\* a valid event: a name, a recognised interval, date-only Start and End in the reference zone
ValidEvent(e) ==
    /\ e.Name # <<>>
    /\ KindOfLabel(ToLower(e.Interval)) # "unknown"
    /\ IsDateOnly(e.Start)
    /\ IsDateOnly(e.End)

(* C18: writing a valid event (a name, a recognised interval, date-only     *)
(* Start and End in the reference zone) as the four cells name, interval,   *)
(* start date, end date, as eventsToValueRange does, and parsing that row   *)
(* with parseRow succeeds and gives an event equal to the original; the     *)
(* text String() gives for a declared Interval parses back to it.           *)
C18_RowRoundTrip ==
    /\ (op = "roundTrip" /\ ValidEvent(events[1])) =>
          /\ Len(rows[1]) = 4
          /\ ~err
          /\ out = events
    /\ (op = "String" /\ KindOfInterval(events[1]) # "unknown") =>
          /\ ~err
          /\ ret = events[1]

\* C18 witness: a yearly event from the leap day 2024-02-29 to 2030-03-15 comes back as it was.
C18_Witness ==
    /\ op = "roundTrip"
    /\ events[1] = [Name |-> sA, Interval |-> sYearlyUp,
                     Start |-> JST(<<2024, 2, 29>>), End |-> JST(<<2030, 3, 15>>)]
    /\ rows[1][3] = <<"2", "0", "2", "4", "/", "0", "2", "/", "2", "9">>
    /\ ~err
    /\ out = events

----------------------------------------------------------------------------
\* the instant at hour h of the calendar day of x, in the zone of x
AtHour(x, h) == Date(Year(x), Month(x), Day(x), h, x.off)

(* C19: whether an event is due depends only on the calendar date of the    *)
(* target in the reference zone: for two target instants of the same        *)
(* calendar day, midnight and 10:00, the bounds check and the recurrence    *)
(* match of filter/isMatch and of validateEvent give the same result, also  *)
(* on the day of the event's Start or End.                                  *)
C19_SameDaySameDecision ==
    /\ op = "filter" => \A h \in ClockHours : filter(events, AtHour(t, h)) = out
    /\ op = "getEvents" => \A h \in ClockHours : getEvents(rows, AtHour(t, h)) = out

----------------------------------------------------------------------------
\* the month of x has no day with the day number of start
MonthLacksDayOf(start, x) == Day(start) > DaysIn(Month(x), Year(x))

\* start is a 29 February and the year of x is no leap year
LeapDayInCommonYear(start, x) == Month(start) = 2 /\ Day(start) = 29 /\ ~IsLeap(Year(x))

(* C20: monthly and yearly matching neither clamps nor rolls over at a      *)
(* month end: a monthly event whose start day is 29, 30 or 31 matches no    *)
(* date of a month that lacks that day, and a yearly event that starts on   *)
(* 29 February matches no date of a year that is no leap year.              *)
C20_NoMonthEndClamp ==
    /\ op = "filter" =>
          LET e == events[1]
          IN  /\ (KindOfLabel(e.Interval) = "monthly" /\ MonthLacksDayOf(e.Start, t)) => out = <<>>
              /\ (KindOfLabel(e.Interval) = "yearly" /\ LeapDayInCommonYear(e.Start, t)) => out = <<>>
    /\ op = "isMatch" =>
          LET e == events[1]
          IN  /\ (KindOfInterval(e.Interval) = "monthly" /\ MonthLacksDayOf(e.StartDate, t)) => ~ret
              /\ (KindOfInterval(e.Interval) = "yearly" /\ LeapDayInCommonYear(e.StartDate, t)) => ~ret

\* C20 witness: a monthly event that started on 2025-01-31 and runs to 2030 is not due on 2025-02-28.
C20_Witness ==
    /\ op = "filter"
    /\ events[1].Interval = sMonthly
    /\ events[1].Start = JST(<<2025, 1, 31>>)
    /\ events[1].End = JST(<<2030, 3, 15>>)
    /\ t = JST(<<2025, 2, 28>>)
    /\ out = <<>>

----------------------------------------------------------------------------
\* the row carries a start date cell that is not empty
HasStartCell(r) == Len(r) > startDateIdx /\ Sprintf(Cell(r, startDateIdx)) # <<>>

(* C21: every event a parser produces (parseRow for a sheet row, getEvent   *)
(* for a Notion page) has a start date that was present in the record and   *)
(* parsed: a record whose start date is missing or empty never yields an    *)
(* event that reaches the bounds and recurrence checks, or is returned,     *)
(* with a defaulted or zero start.                                          *)
C21_StartAlwaysPresent ==
    /\ (op = "parseRow" /\ ~err) =>
          /\ HasStartCell(rows[1])
          /\ IsCanonical(Sprintf(Cell(rows[1], startDateIdx)))
          /\ CivilOf(out[1].Start) = DateOf(Sprintf(Cell(rows[1], startDateIdx)))
    /\ op = "getEvents" =>
          /\ \A i \in 1..Len(rows) :
                getEvent(rows[i]).ok =>
                    rows[i].Start.has /\ ~IsZero(getEvent(rows[i]).event.Start)
          /\ out = getEvents(SelectSeq(rows, LAMBDA pg : pg.Start.has), t)

----------------------------------------------------------------------------
\* call i of the log succeeded and is followed by a call of fn
FollowedBy(i, fn) == \E j \in (i + 1)..Len(calls) : calls[j].fn = fn

\* every session opened in this run has been closed
SessionsClosed ==
    \A i \in 1..Len(calls) :
        (calls[i].fn = "Open" /\ calls[i].err = NoError) => FollowedBy(i, "Close")

\* every webhook created in this run has had a delete attempted
WebhooksDeleted ==
    \A i \in 1..Len(calls) :
        (calls[i].fn = "WebhookCreate" /\ calls[i].err = NoError) => FollowedBy(i, "WebhookDelete")

(* C22: when postScheduleToDiscord has returned, every webhook that         *)
(* WebhookCreate created has had WebhookDelete attempted on it, also on     *)
(* the path where WebhookExecute fails, and every session that Open         *)
(* succeeded on has been closed.                                            *)
C22_WebhookAlwaysDeleted ==
    [](((op \in {sheetBot, notionBot}) /\ pc = "done" /\ Len(Posts) = 1) =>
          (SessionsClosed /\ WebhooksDeleted))

====
